---- MODULE Spec2Model ----
(***************************************************************************)
(* The Metropolis sampler mcmc() of the notebook                           *)
(* posts/a-bayesian-tutorial-in-python-part-II.ipynb (lines 189-236),      *)
(* together with the kernel state it runs in: the names bound in the       *)
(* kernel's namespace, numpy's process-wide random source that scipy's     *)
(* rvs() draws from, and standard output.                                  *)
(*                                                                         *)
(* Numbers.  A float is a record [k, v]: k = "fin" with the value v on a   *)
(* fixed-point grid, k = "inf" with v = 1 or -1, or k = "nan".  Parameter  *)
(* values (observations, chain entries) are counted in units of 0.1, the   *)
(* proposal scale; log-densities in units of 1/LOGUNIT; the acceptance     *)
(* ratio and the uniform draw in units of 1/ONE.  exp() rounds to that     *)
(* grid, underflows to 0 and overflows to +inf, as the double does on its  *)
(* own (finer) grid.                                                       *)
(*                                                                         *)
(* The module also holds the two template functions html_translations and  *)
(* html_tags of the theme's post header template (unnamed/part_000, lines  *)
(* 11-22 and 30-42).  A rendering is the sequence of the HTML elements the *)
(* function writes; the text between them (whitespace) is left out.        *)
(***************************************************************************)
EXTENDS Integers, Sequences, FiniteSets, TLC

\* ------------------------------------------------------------------ bounds
\* largest n_samples passed to mcmc
MaxSamples == 3
\* largest number of observations passed to mcmc
MaxData == 1
\* number of distinct raw words the random source can emit
RawCard == 3
\* period of the random source
Period == 3
\* largest number of tags of a post
MaxTags == 3

\* ------------------------------------------------------------------ floats
Fin(x) == [k |-> "fin", v |-> x]
NaN == [k |-> "nan", v |-> 0]
PInf == [k |-> "inf", v |-> 1]
NInf == [k |-> "inf", v |-> -1]

\* IEEE addition: nan is absorbing, inf + (-inf) is nan
FAdd(a, b) ==
    IF a.k = "nan" \/ b.k = "nan" THEN NaN
    ELSE IF a.k = "inf" /\ b.k = "inf" THEN (IF a.v = b.v THEN a ELSE NaN)
    ELSE IF a.k = "inf" THEN a
    ELSE IF b.k = "inf" THEN b
    ELSE Fin(a.v + b.v)

FNeg(a) == IF a.k = "nan" THEN NaN ELSE [k |-> a.k, v |-> 0 - a.v]

FSub(a, b) == FAdd(a, FNeg(b))

\* IEEE a > b: false as soon as one side is nan
FGt(a, b) ==
    /\ a.k # "nan"
    /\ b.k # "nan"
    /\ IF a.k = "inf" THEN a.v = 1 /\ b # PInf
       ELSE IF b.k = "inf" THEN b.v = -1
       ELSE a.v > b.v

\* fixed-point unit of a log-density: 1800 = lcm of the denominators of
\* 1/(2 sigma^2) = 8/9 and 1/2 on the 0.1 grid
LOGUNIT == 1800
\* fixed-point unit of the acceptance ratio and of the uniform draw
ONE == 10000
\* sigma = 0.75 and the prior's scale = 1, counted in units of 0.05
SIGMA == 15
PRIOR_SCALE == 20
\* the prior's loc = 1 in units of 0.1
PRIOR_LOC == 10
\* the proposal's scale = 0.1 in units of 0.1
PROPOSAL_SCALE == 1
\* LOGUNIT * ln(sqrt(2 pi)), the constant of scipy's norm.logpdf
HALF_LN_2PI == 1654

\* LOGUNIT * ln(scale) for the two scales the notebook uses
LnScale(scale) == IF scale = SIGMA THEN 0 - 518 ELSE 0

\* scipy.stats.norm.logpdf(x, loc, scale) = -(x - loc)^2 / (2 scale^2)
\*                                          - ln(scale) - ln(sqrt(2 pi))
NormLogPdf(x, loc, scale) ==
    IF x.k = "nan" \/ loc.k = "nan" THEN NaN
    ELSE IF x.k = "inf" /\ loc.k = "inf" /\ x.v = loc.v THEN NaN
    ELSE IF x.k = "inf" \/ loc.k = "inf" THEN NInf
    ELSE Fin(0 - ((x.v - loc.v) * (x.v - loc.v)) * ((2 * LOGUNIT) \div (scale * scale))
               - LnScale(scale) - HALF_LN_2PI)

RECURSIVE SumAxis(_)
\* np.sum over one row: the sum of no term is 0.0
SumAxis(row) ==
    IF row = <<>> THEN Fin(0)
    ELSE FAdd(Head(row), SumAxis(Tail(row)))

\* (mutant) np.mean in place of np.sum: the mean of no term is nan
GetLogLikMean(data2d, mu, sigma) ==
    IF Len(data2d[1]) = 0 THEN NaN
    ELSE SumAxis([j \in 1..Len(data2d[1]) |-> NormLogPdf(data2d[1][j], mu, sigma)])

\* get_log_lik(data, param_dict): data is the 1 x N view, the result has one entry
GetLogLik(data2d, mu, sigma) ==
    SumAxis([j \in 1..Len(data2d[1]) |-> NormLogPdf(data2d[1][j], mu, sigma)])

\* get_log_prior(par_dict, loc=1, scale=1)
GetLogPrior(mu) == NormLogPdf(mu, Fin(PRIOR_LOC), PRIOR_SCALE)

RECURSIVE ExpTerm(_, _)
\* ONE * (d / LOGUNIT)^k / k!, each division rounding down
ExpTerm(k, d) ==
    IF k = 0 THEN ONE ELSE (ExpTerm(k - 1, d) * d) \div (k * LOGUNIT)

\* ONE * exp(-d / LOGUNIT) for 0 <= d <= LOGUNIT: the Taylor polynomial of degree 8
ExpTaylor(d) ==
    ExpTerm(0, d) - ExpTerm(1, d) + ExpTerm(2, d) - ExpTerm(3, d) + ExpTerm(4, d)
        - ExpTerm(5, d) + ExpTerm(6, d) - ExpTerm(7, d) + ExpTerm(8, d)

RECURSIVE ExpPow(_)
\* ONE * exp(-q), by repeated multiplication
ExpPow(q) ==
    IF q = 0 THEN ONE ELSE (ExpPow(q - 1) * ExpTaylor(LOGUNIT)) \div ONE

\* ONE * exp(-d / LOGUNIT) for d >= 0, rounded down to the grid: non-increasing
\* in d, ONE at 0, below ONE from 1 on, and 0 (underflow) for large d (exp(-10)
\* is below the grid's smallest step)
ExpNeg(d) ==
    IF d \div LOGUNIT >= 10 THEN 0
    ELSE (ExpPow(d \div LOGUNIT) * ExpTaylor(d % LOGUNIT)) \div ONE

\* np.exp(x) of a log-density difference
FExp(x) ==
    IF x.k = "nan" THEN NaN
    ELSE IF x.k = "inf" THEN (IF x.v = 1 THEN PInf ELSE Fin(0))
    ELSE IF x.v <= 0 THEN Fin(ExpNeg(0 - x.v))
    ELSE LET e == ExpNeg(x.v)
         IN  IF e = 0 THEN PInf ELSE Fin((ONE * ONE) \div e)

\* ------------------------------------------------------------ the inputs
\* observations: 4.0, 60.0 (far enough for the ratio to underflow), and not finite
DataVals == {Fin(40), Fin(600), NaN, PInf}

Observations == UNION {[1..len -> DataVals] : len \in 0..MaxData}

\* mu_0: the default 0.5, 1.1, and 6.0 (far from the prior's centre)
InitVals == {Fin(5), Fin(11), Fin(60)}

SampleCounts == (0 - 1)..MaxSamples

\* the two invocations of mcmc the model follows
Calls == {1, 2}

\* the raw words of the random source
Raw == 0..(RawCard - 1)

\* a word of the stream nobody has read yet
Unread == 0 - 1

VARIABLES
    namespace,  \* the names bound in the kernel's global namespace
    stream,     \* the random source's output, position -> raw word (Unread until drawn)
    rngPos,     \* the random source's state: the position of its next word
    stdout,     \* what print() has written
    pc,         \* per call: where the invocation stands
    obs,        \* per call: the caller's observation array
    data,       \* per call: the local data, the 1 x N view made by reshape
    mu0,        \* per call: the argument mu_0
    n_samples,  \* per call: the argument n_samples
    trace_mu,   \* per call: the local array trace_mu
    i,          \* per call: the loop variable
    proposed_mu, \* per call: the local proposed_mu
    ratio,      \* per call: the local ratio
    err,        \* per call: the exception that ended the call, "" if none
    result,     \* per call: the array handed to the caller
    draws,      \* per call, history: the draws it made, <<iteration, kind, position, word>>
    hist,       \* per call, history: per finished iteration, what was decided on what
    post,       \* template: the post, its tags, translated_to and available translations
    hidden_tags, \* template context: the tags that are not shown
    translations, \* template context: the languages of the site (the keys of the dict)
    lang,       \* template context: the language of the page
    rendered,   \* template: the function that was rendered, "" before
    out         \* template: the HTML elements the function wrote

\* the state of the template rendering
page == <<post, hidden_tags, translations, lang, rendered, out>>

vars == <<namespace, stream, rngPos, stdout, pc, obs, data, mu0, n_samples, trace_mu,
          i, proposed_mu, ratio, err, result, draws, hist, page>>

\* the state of the kernel the sampler runs in
kernel == <<namespace, stream, rngPos, stdout, pc, obs, data, mu0, n_samples, trace_mu,
            i, proposed_mu, ratio, err, result, draws, hist>>

\* the state of invocation c that is its own
Frame(c) == <<pc[c], obs[c], data[c], mu0[c], n_samples[c], trace_mu[c], i[c],
              proposed_mu[c], ratio[c], err[c], result[c]>>

\* ------------------------------------------------------- the code's pieces
\* a[idx] with Python's index from 0
At(a, idx) == a[idx + 1]

\* (mutant) np.ones(n_samples + 1): one placeholder too many
AllocTraceLong(n) == [j \in 1..(n + 1) |-> NaN]

\* (mutant) np.zeros(n): the entries start as 0.0
AllocTraceZeros(n) == [j \in 1..n |-> Fin(0)]

\* np.nan * np.ones(n): n placeholders, for n >= 0
AllocTrace(n) == [j \in 1..n |-> NaN]

\* np.ones(n) raises ValueError for a negative n
AllocFails(n) == n < 0

\* (mutant) a bounds check that lets the index len(a) through
StoreFailsLoose(a, idx) == idx > Len(a) \/ idx < 0 - Len(a)

\* a[idx] = v raises IndexError when idx is out of bounds
StoreFails(a, idx) == idx >= Len(a) \/ idx < 0 - Len(a)

\* (mutant) a[:idx+1] = v: the entries before idx are overwritten too
StoreAtSlice(a, idx, v) == [j \in 1..Len(a) |-> IF j <= idx + 1 THEN v ELSE a[j]]

\* a[idx] = v; a negative idx counts from the end
StoreAt(a, idx, v) ==
    [a EXCEPT ![IF idx < 0 THEN Len(a) + idx + 1 ELSE idx + 1] = v]

\* (mutant) range(1, n_samples + 1)
RangeHasNextLong(cur, n) == cur + 1 < n + 1

\* range(1, n_samples) has a value after cur (0: before the first)
RangeHasNext(cur, n) == cur + 1 < n

\* the standard normal deviate and the uniform value in [0, 1) of a raw word
StdNormal(w) == w - 1
StdUniform(w) == (w * ONE) \div RawCard

\* (mutant) a proposal drawn from a source whose state is not the stream's word alone
NormRvsUnseeded(loc, scale, w) ==
    FAdd(loc, Fin(scale * StdNormal((w + rngPos) % RawCard)))

\* norm.rvs(loc, scale): loc + scale * z
NormRvs(loc, scale, w) == FAdd(loc, Fin(scale * StdNormal(w)))

\* (mutant) uniform.rvs(loc=0, scale=2): values up to 2
UniformRvsWide(w) == Fin(2 * StdUniform(w))

\* uniform.rvs(loc=0, scale=1): 0 + 1 * u
UniformRvs(w) == Fin(StdUniform(w))

\* log_prob at mu: get_log_lik(data, dict) + get_log_prior(dict)
LogProb(d, mu) == FAdd(GetLogLik(d, mu, SIGMA), GetLogPrior(mu))

\* ratio = np.exp(log_prob_prop - log_prob_curr)
Ratio(d, prop, curr) == FExp(FSub(LogProb(d, prop), LogProb(d, curr)))

\* (mutant) if ratio > 2
RatioAboveTwo(r) == FGt(r, Fin(2 * ONE))

\* if ratio > 1
RatioAboveOne(r) == FGt(r, Fin(ONE))

\* (mutant) if not (uniform.rvs(...) <= ratio): true on a nan ratio
RejectTestNotLe(u, r) == ~(u.k # "nan" /\ r.k # "nan" /\ ~FGt(u, r))

\* if uniform.rvs(...) > ratio
RejectTest(u, r) == FGt(u, r)

\* (mutant) the rejection branch leaves trace_mu[i] as it is
RetainedNothing(a, idx) == At(a, idx)

\* the value kept on rejection: trace_mu[i-1]
Retained(a, idx) == At(a, idx - 1)

\* (mutant) the centre of the proposal and the current point: trace_mu[0]
CurrentFirst(a, idx) == At(a, 0)

\* the centre of the proposal and the current point: trace_mu[i-1]
Current(a, idx) == At(a, idx - 1)

\* (mutant) trace_mu[i-1] = v
TraceStoreBehind(c, idx, v) ==
    [trace_mu EXCEPT ![c] = StoreAt(trace_mu[c], idx - 1, v)]

\* (mutant) one trace array shared by the invocations (a module-level trace_mu)
TraceStoreShared(c, idx, v) ==
    [o \in Calls |-> IF idx < Len(trace_mu[o]) THEN StoreAt(trace_mu[o], idx, v)
                     ELSE trace_mu[o]]

\* the trace arrays after invocation c stores v at idx of its own
TraceStore(c, idx, v) == [trace_mu EXCEPT ![c] = StoreAt(trace_mu[c], idx, v)]

\* ------------------------------------------------------------------- Init
\* The kernel before any call of mcmc.  The import cell (line 64) binds scipy's
\* norm under the name gaussian, and uniform; the cells at lines 189-236 define
\* the three functions.  No cell binds the name norm that they use: it is bound
\* only in a kernel that got it from elsewhere (the notebook also reads
\* df_data_s, df_data and df_grid_3, which it never defines).
Init ==
    /\ namespace \in {{"np", "gaussian", "uniform", "mcmc", "get_log_lik", "get_log_prior"},
                      {"np", "gaussian", "uniform", "mcmc", "get_log_lik", "get_log_prior",
                       "norm"}}
    /\ stream = [p \in 0..(Period - 1) |-> Unread]
    /\ rngPos = 0
    /\ stdout = <<>>
    /\ pc = [c \in Calls |-> "idle"]
    /\ obs = [c \in Calls |-> <<>>]
    /\ data = [c \in Calls |-> <<>>]
    /\ mu0 = [c \in Calls |-> NaN]
    /\ n_samples = [c \in Calls |-> 0]
    /\ trace_mu = [c \in Calls |-> <<>>]
    /\ i = [c \in Calls |-> 0]
    /\ proposed_mu = [c \in Calls |-> NaN]
    /\ ratio = [c \in Calls |-> NaN]
    /\ err = [c \in Calls |-> ""]
    /\ result = [c \in Calls |-> <<>>]
    /\ draws = [c \in Calls |-> <<>>]
    /\ hist = [c \in Calls |-> <<>>]
    /\ post = [tags |-> <<>>, translated_to |-> {}, available |-> {}]
    /\ hidden_tags = {}
    /\ translations = {}
    /\ lang = "en"
    /\ rendered = ""
    /\ out = <<>>

\* ---------------------------------------------------------------- actions
\* the random source hands out its next word to invocation c in iteration it
Draw(c, kind, w) ==
    /\ stream[rngPos] \in {Unread, w}
    /\ stream' = [stream EXCEPT ![rngPos] = w]
    /\ rngPos' = (rngPos + 1) % Period
    /\ draws' = [draws EXCEPT ![c] = Append(@, <<i[c], kind, rngPos, w>>)]

NoDraw == UNCHANGED <<stream, rngPos, draws>>

\* mcmc(data=d, mu_0=m, n_samples=n) and lines 190-195: print, reshape,
\* allocate the trace, store mu_0
Invoke(c, d, m, n) ==
    /\ pc[c] = "idle"
    /\ obs' = [obs EXCEPT ![c] = d]
    /\ mu0' = [mu0 EXCEPT ![c] = m]
    /\ n_samples' = [n_samples EXCEPT ![c] = n]
    /\ stdout' = Append(stdout, Len(d))
    /\ data' = [data EXCEPT ![c] = <<d>>]
    /\ IF AllocFails(n)
       THEN /\ pc' = [pc EXCEPT ![c] = "raised"]
            /\ err' = [err EXCEPT ![c] = "ValueError"]
            /\ UNCHANGED trace_mu
       ELSE IF StoreFails(AllocTrace(n), 0)
       THEN /\ pc' = [pc EXCEPT ![c] = "raised"]
            /\ err' = [err EXCEPT ![c] = "IndexError"]
            /\ trace_mu' = [trace_mu EXCEPT ![c] = AllocTrace(n)]
       ELSE /\ pc' = [pc EXCEPT ![c] = "for"]
            /\ trace_mu' = [trace_mu EXCEPT ![c] = StoreAt(AllocTrace(n), 0, m)]
            /\ UNCHANGED err
    /\ NoDraw
    /\ UNCHANGED <<page, namespace, i, proposed_mu, ratio, result, hist>>

\* a caller invokes mcmc
Call(c) ==
    \E d \in Observations, m \in InitVals, n \in SampleCounts : Invoke(c, d, m, n)

\* a caller invokes mcmc again, with the arguments of the invocation already made
CallAgain(c) ==
    \E o \in Calls \ {c} :
        /\ pc[o] # "idle"
        /\ Invoke(c, obs[o], mu0[o], n_samples[o])

\* line 196: the for statement takes the next value of range(1, n_samples)
ForNext(c) ==
    /\ pc[c] = "for"
    /\ RangeHasNext(i[c], n_samples[c])
    /\ i' = [i EXCEPT ![c] = @ + 1]
    /\ pc' = [pc EXCEPT ![c] = "body"]
    /\ NoDraw
    /\ UNCHANGED <<page, namespace, stdout, obs, data, mu0, n_samples, trace_mu, proposed_mu,
                   ratio, err, result, hist>>

\* line 196 when the range is exhausted, and line 216: return trace_mu
Return(c) ==
    /\ pc[c] = "for"
    /\ ~RangeHasNext(i[c], n_samples[c])
    /\ result' = [result EXCEPT ![c] = trace_mu[c]]
    /\ pc' = [pc EXCEPT ![c] = "returned"]
    /\ NoDraw
    /\ UNCHANGED <<page, namespace, stdout, obs, data, mu0, n_samples, trace_mu, i, proposed_mu,
                   ratio, err, hist>>

\* line 197 in a kernel where the name norm is not bound: NameError
ProposeUnbound(c) ==
    /\ pc[c] = "body"
    /\ "norm" \notin namespace
    /\ pc' = [pc EXCEPT ![c] = "raised"]
    /\ err' = [err EXCEPT ![c] = "NameError"]
    /\ NoDraw
    /\ UNCHANGED <<page, namespace, stdout, obs, data, mu0, n_samples, trace_mu, i, proposed_mu,
                   ratio, result, hist>>

\* lines 197-204: draw the proposal, evaluate both log-posteriors and the ratio
Propose(c) ==
    /\ pc[c] = "body"
    /\ "norm" \in namespace
    /\ \E w \in Raw :
        /\ Draw(c, "norm", w)
        /\ LET prop == NormRvs(Current(trace_mu[c], i[c]), PROPOSAL_SCALE, w)
           IN  /\ proposed_mu' = [proposed_mu EXCEPT ![c] = prop]
               /\ ratio' = [ratio EXCEPT ![c] =
                               Ratio(data[c], prop, Current(trace_mu[c], i[c]))]
    /\ pc' = [pc EXCEPT ![c] = "test"]
    /\ UNCHANGED <<page, namespace, stdout, obs, data, mu0, n_samples, trace_mu, i, err,
                   result, hist>>

\* what iteration i of c decided: the proposal, the ratio, the uniform value
\* (k = "none" when none was drawn) and the branch taken
Decided(c, u, branch) ==
    hist' = [hist EXCEPT ![c] = Append(@, [it |-> i[c], prop |-> proposed_mu[c],
                                            ratio |-> ratio[c], u |-> u,
                                            branch |-> branch])]

\* lines 205-207: ratio > 1, accept the proposal
AcceptAbove(c) ==
    /\ pc[c] = "test"
    /\ RatioAboveOne(ratio[c])
    /\ trace_mu' = TraceStore(c, i[c], proposed_mu[c])
    /\ Decided(c, [k |-> "none", v |-> 0], "accept")
    /\ pc' = [pc EXCEPT ![c] = "for"]
    /\ NoDraw
    /\ UNCHANGED <<page, namespace, stdout, obs, data, mu0, n_samples, i, proposed_mu, ratio,
                   err, result>>

\* lines 208-212: draw the uniform value; it exceeds the ratio: keep trace_mu[i-1]
RejectBelow(c) ==
    /\ pc[c] = "test"
    /\ ~RatioAboveOne(ratio[c])
    /\ \E w \in Raw :
        /\ Draw(c, "uniform", w)
        /\ RejectTest(UniformRvs(w), ratio[c])
        /\ trace_mu' = TraceStore(c, i[c], Retained(trace_mu[c], i[c]))
        /\ Decided(c, UniformRvs(w), "reject")
    /\ pc' = [pc EXCEPT ![c] = "for"]
    /\ UNCHANGED <<page, namespace, stdout, obs, data, mu0, n_samples, i, proposed_mu, ratio,
                   err, result>>

\* lines 208-210 and 213-215: draw the uniform value; it does not exceed the
\* ratio: accept the proposal
AcceptBelow(c) ==
    /\ pc[c] = "test"
    /\ ~RatioAboveOne(ratio[c])
    /\ \E w \in Raw :
        /\ Draw(c, "uniform", w)
        /\ ~RejectTest(UniformRvs(w), ratio[c])
        /\ trace_mu' = TraceStore(c, i[c], proposed_mu[c])
        /\ Decided(c, UniformRvs(w), "accept")
    /\ pc' = [pc EXCEPT ![c] = "for"]
    /\ UNCHANGED <<page, namespace, stdout, obs, data, mu0, n_samples, i, proposed_mu, ratio,
                   err, result>>

\* a step of invocation c once it is made
Step(c) ==
    \/ ForNext(c)
    \/ Return(c)
    \/ ProposeUnbound(c)
    \/ Propose(c)
    \/ AcceptAbove(c)
    \/ RejectBelow(c)
    \/ AcceptBelow(c)

\* one invocation
Next == Call(1) \/ Step(1)

Spec == Init /\ [][Next]_vars

\* two invocations with the same arguments in one kernel, their steps interleaved
NextPair == Call(1) \/ CallAgain(2) \/ \E c \in Calls : Step(c)

SpecPair == Init /\ [][NextPair]_vars

\* ------------------------------------------------------ the post header
\* the tags a post can carry
Tags == {"bayes", "mathjax", "python"}

TagLists == UNION {[1..len -> Tags] : len \in 0..MaxTags}

\* the language codes, in the order of Python's string comparison
LangOrder == <<"de", "en", "es">>

Langs == {LangOrder[k] : k \in 1..Len(LangOrder)}

\* the place of a language code in that order
Rank(l) == CHOOSE k \in 1..Len(LangOrder) : LangOrder[k] = l

RECURSIVE sorted(_)
\* sorted(translations): the keys in ascending order
sorted(keys) ==
    IF keys = {} THEN <<>>
    ELSE LET least == CHOOSE x \in keys : \A y \in keys : Rank(x) <= Rank(y)
         IN  <<least>> \o sorted(keys \ {least})

\* line 12: len(post.translated_to) > 1
IsTranslated(p) == Cardinality(p.translated_to) > 1

\* (mutant) line 16 without the test against the page's language
LinkShownAny(p, langname, current) == langname \in p.available

\* line 16: langname != lang and post.is_translation_available(langname)
LinkShown(p, langname, current) == langname # current /\ langname \in p.available

RECURSIVE TranslationLinks(_, _, _)
\* lines 15-19: the loop over the sorted languages, one <p><a> per language shown
TranslationLinks(p, names, current) ==
    IF names = <<>> THEN <<>>
    ELSE (IF LinkShown(p, Head(names), current) THEN <<<<"a", Head(names)>>>> ELSE <<>>)
             \o TranslationLinks(p, Tail(names), current)

\* lines 12-21: what html_translations(post) writes
HtmlTranslations(p, keys, current) ==
    IF IsTranslated(p)
    THEN <<<<"div", "translations">>>> \o TranslationLinks(p, sorted(keys), current)
             \o <<<<"/div", "translations">>>>
    ELSE <<>>

\* (mutant) line 35 as: if tag in hidden_tags
TagShownInverted(tag, hidden) == tag \in hidden

\* line 35: tag not in hidden_tags
TagShown(tag, hidden) == tag \notin hidden

RECURSIVE TagLinks(_, _)
\* lines 34-38: the loop over post.tags, one <li><a> per tag shown
TagLinks(tags, hidden) ==
    IF tags = <<>> THEN <<>>
    ELSE (IF TagShown(Head(tags), hidden) THEN <<<<"li", Head(tags)>>>> ELSE <<>>)
             \o TagLinks(Tail(tags), hidden)

\* line 31: if post.tags (a list is true when it is not empty)
HasTags(p) == p.tags # <<>>

\* lines 31-41: what html_tags(post) writes
HtmlTags(p, hidden) ==
    IF HasTags(p)
    THEN <<<<"div", "tags">>, <<"ul", "tags-ul">>>> \o TagLinks(p.tags, hidden)
             \o <<<<"/ul", "tags-ul">>, <<"/div", "tags">>>>
    ELSE <<>>

\* html_translations(post) is rendered for a post in a context
html_translations ==
    /\ rendered = ""
    /\ \E to \in SUBSET Langs, avail \in SUBSET Langs, keys \in SUBSET Langs,
          current \in Langs :
           /\ post' = [post EXCEPT !.translated_to = to, !.available = avail]
           /\ translations' = keys
           /\ lang' = current
           /\ out' = HtmlTranslations(post', keys, current)
    /\ rendered' = "html_translations"
    /\ UNCHANGED <<kernel, hidden_tags>>

\* html_tags(post) is rendered for a post in a context
html_tags ==
    /\ rendered = ""
    /\ \E tags \in TagLists, hidden \in SUBSET Tags :
           /\ post' = [post EXCEPT !.tags = tags]
           /\ hidden_tags' = hidden
           /\ out' = HtmlTags(post', hidden)
    /\ rendered' = "html_tags"
    /\ UNCHANGED <<kernel, translations, lang>>

\* one rendering of either function
NextPage == html_translations \/ html_tags

SpecPage == Init /\ [][NextPage]_vars

\* ----------------------------------------------------------------- claims
\* the invocations that have got past line 195
Running(c) == pc[c] \in {"for", "body", "test", "returned"}

\* the iterations invocation c has finished
Finished(c) == 1..Len(hist[c])

\* the uniform draws invocation c made in iteration j
UniformDraws(c, j) ==
    {k \in 1..Len(draws[c]) : draws[c][k][1] = j /\ draws[c][k][2] = "uniform"}

\* the branches invocation c has taken so far
Branches(c) == {hist[c][j].branch : j \in Finished(c)}

\* C1: the chain returned by a call with n_samples >= 1 has exactly n_samples
\* entries, whatever accept and reject outcomes occurred
C1_ChainLength ==
    \A c \in Calls :
        pc[c] = "returned" =>
            /\ n_samples[c] >= 1
            /\ Len(result[c]) = n_samples[c]
            /\ Len(hist[c]) = n_samples[c] - 1

\* a full chain is returned after both an accepted and a rejected proposal
C1_Witness ==
    \E c \in Calls :
        /\ pc[c] = "returned"
        /\ n_samples[c] = MaxSamples
        /\ Branches(c) = {"accept", "reject"}

\* C2: entry 0 of the chain is mu_0 from line 195 on, after every iteration and
\* in the returned chain
C2_FirstEntry ==
    \A c \in Calls :
        /\ Running(c) => At(trace_mu[c], 0) = mu0[c]
        /\ pc[c] = "returned" => At(result[c], 0) = mu0[c]

\* a chain is returned whose later entries all moved away from mu_0
C2_Witness ==
    \E c \in Calls :
        /\ pc[c] = "returned"
        /\ n_samples[c] >= 3
        /\ \A j \in Finished(c) : At(result[c], j) # mu0[c]

\* C3: every entry after the first is the entry before it or the proposal
\* drawn in its iteration
C3_EntryOrigin ==
    \A c \in Calls :
        \A j \in Finished(c) :
            /\ hist[c][j].it = j
            /\ \/ At(trace_mu[c], j) = At(trace_mu[c], j - 1)
               \/ At(trace_mu[c], j) = hist[c][j].prop
            /\ pc[c] = "returned" =>
                   \/ At(result[c], j) = At(result[c], j - 1)
                   \/ At(result[c], j) = hist[c][j].prop

\* a returned chain holds an accepted proposal and, after it, a retained value
\* that differs from the proposal rejected there
C3_Witness ==
    \E c \in Calls :
        /\ pc[c] = "returned"
        /\ \E j \in Finished(c) :
               /\ hist[c][j].branch = "accept"
               /\ At(result[c], j) # At(result[c], j - 1)
        /\ \E j \in Finished(c) :
               /\ hist[c][j].branch = "reject"
               /\ At(result[c], j) # hist[c][j].prop

\* C4: with n_samples = 1 the loop body never runs: nothing is drawn and the
\* chain returned is [mu_0]
C4_SingleSample ==
    \A c \in Calls :
        (pc[c] # "idle" /\ n_samples[c] = 1) =>
            /\ pc[c] \in {"for", "returned"}
            /\ draws[c] = <<>>
            /\ hist[c] = <<>>
            /\ i[c] = 0
            /\ pc[c] = "returned" => result[c] = <<mu0[c]>>

\* a call with n_samples = 1 has returned
C4_Witness ==
    \E c \in Calls : pc[c] = "returned" /\ n_samples[c] = 1 /\ result[c] = <<mu0[c]>>

\* the raw words invocation c has read, in order
Words(c) == [k \in 1..Len(draws[c]) |-> draws[c][k][4]]

\* in which iteration and for which distribution invocation c drew, in order
DrawPattern(c) == [k \in 1..Len(draws[c]) |-> <<draws[c][k][1], draws[c][k][2]>>]

\* C5: two invocations with the same arguments that have read the same random
\* words and stand at the same place agree on everything: on the chain, on the
\* locals, and on where they consumed the stream
C5_Deterministic ==
    \A c \in Calls, o \in Calls :
        ( /\ pc[c] # "idle"
          /\ pc[o] = pc[c]
          /\ obs[o] = obs[c]
          /\ mu0[o] = mu0[c]
          /\ n_samples[o] = n_samples[c]
          /\ Words(o) = Words(c) ) =>
            /\ trace_mu[o] = trace_mu[c]
            /\ result[o] = result[c]
            /\ i[o] = i[c]
            /\ proposed_mu[o] = proposed_mu[c]
            /\ ratio[o] = ratio[c]
            /\ err[o] = err[c]
            /\ hist[o] = hist[c]
            /\ DrawPattern(o) = DrawPattern(c)

\* both invocations have returned a full chain after reading the same words,
\* among them a uniform draw
C5_Witness ==
    /\ pc[1] = "returned"
    /\ pc[2] = "returned"
    /\ n_samples[1] = MaxSamples
    /\ Words(1) = Words(2)
    /\ Len(draws[1]) >= 3
    /\ \E j \in Finished(1) : UniformDraws(1, j) # {}
    /\ \E j \in Finished(1) : At(result[1], j) # At(result[1], j - 1)

\* C6: the sampler always returns a full chain: for n_samples >= 1 no call ends
\* in an exception, and a returned call has run n_samples - 1 iterations, each
\* ending in accept or in reject
C6_AlwaysReturns ==
    \A c \in Calls :
        n_samples[c] >= 1 =>
            /\ pc[c] # "raised"
            /\ pc[c] = "returned" =>
                   /\ Len(hist[c]) = n_samples[c] - 1
                   /\ \A j \in Finished(c) : hist[c][j].branch \in {"accept", "reject"}

\* C7 as stated: a call with no observation, or with n_samples <= 0, returns
\* no chain
C7_InvalidRejected ==
    \A c \in Calls :
        (pc[c] # "idle" /\ (obs[c] = <<>> \/ n_samples[c] <= 0)) =>
            pc[c] # "returned"

\* C7 as amended: a call with n_samples <= 0 ends in an exception (ValueError
\* below 0, IndexError at 0), draws nothing and returns no chain; a call with no
\* observation is not rejected: no ValueError or IndexError ends it, and with
\* n_samples = 1 no exception at all
C7_CountRejected ==
    \A c \in Calls :
        pc[c] # "idle" =>
            /\ n_samples[c] < 0 => (pc[c] = "raised" /\ err[c] = "ValueError")
            /\ n_samples[c] = 0 => (pc[c] = "raised" /\ err[c] = "IndexError")
            /\ n_samples[c] <= 0 => (result[c] = <<>> /\ draws[c] = <<>>)
            /\ (obs[c] = <<>> /\ n_samples[c] >= 1) =>
                   err[c] \notin {"ValueError", "IndexError"}
            /\ (obs[c] = <<>> /\ n_samples[c] = 1) => pc[c] \in {"for", "returned"}

\* a call with n_samples = 0 has ended in IndexError
C7_Witness ==
    \E c \in Calls : n_samples[c] = 0 /\ pc[c] = "raised" /\ err[c] = "IndexError"

\* C8: an iteration whose ratio exceeds 1 stores the proposal and draws no
\* uniform value
C8_AcceptAboveOne ==
    \A c \in Calls :
        \A j \in Finished(c) :
            FGt(hist[c][j].ratio, Fin(ONE)) =>
                /\ At(trace_mu[c], j) = hist[c][j].prop
                /\ hist[c][j].u.k = "none"
                /\ UniformDraws(c, j) = {}

\* an iteration with a ratio above 1 has moved the chain
C8_Witness ==
    \E c \in Calls :
        \E j \in Finished(c) :
            /\ FGt(hist[c][j].ratio, Fin(ONE))
            /\ hist[c][j].ratio.k = "fin"
            /\ At(trace_mu[c], j) # At(trace_mu[c], j - 1)

\* C9: an iteration whose ratio does not exceed 1 draws exactly one uniform
\* value u in [0, 1), stores the proposal if the ratio exceeds u and the previous
\* entry otherwise, also when the ratio equals u (stated for the ratios that are
\* numbers)
C9_AcceptIffAbove ==
    \A c \in Calls :
        \A j \in Finished(c) :
            (hist[c][j].ratio.k # "nan" /\ ~FGt(hist[c][j].ratio, Fin(ONE))) =>
                /\ Cardinality(UniformDraws(c, j)) = 1
                /\ hist[c][j].u.k = "fin"
                /\ hist[c][j].u.v >= 0
                /\ hist[c][j].u.v < ONE
                /\ IF FGt(hist[c][j].ratio, hist[c][j].u)
                   THEN At(trace_mu[c], j) = hist[c][j].prop
                   ELSE At(trace_mu[c], j) = At(trace_mu[c], j - 1)

\* the invocations that are between their call and their end
InProgress(c) == pc[c] \in {"for", "body", "test"}

\* C10 as stated: a step of one invocation changes neither the chain of another
\* invocation in progress nor the place in the random stream that one draws
\* its next word from
C10_NoSharedState ==
    [][\A c \in Calls : \A o \in Calls \ {c} :
           (Frame(c)' # Frame(c) /\ InProgress(o)) =>
               /\ trace_mu'[o] = trace_mu[o]
               /\ rngPos' = rngPos]_vars

\* C10 as amended: a step of one invocation changes nothing that is another
\* invocation's own: its chain, its arguments, its other locals, its result
C10_FramesDisjoint ==
    [][\A c \in Calls : \A o \in Calls \ {c} :
           Frame(c)' # Frame(c) => Frame(o)' = Frame(o)]_vars

\* the two invocations drew in turn from the one source and, with the same
\* arguments, returned different chains
C10_Witness ==
    /\ pc[1] = "returned"
    /\ pc[2] = "returned"
    /\ result[1] # result[2]
    /\ Len(draws[1]) >= 2
    /\ Len(draws[2]) >= 1
    /\ draws[1][1][3] = 0
    /\ draws[2][1][3] = 1
    /\ draws[1][2][3] = 2

\* the proposal draws invocation c made in iteration j
NormDraws(c, j) ==
    {k \in 1..Len(draws[c]) : draws[c][k][1] = j /\ draws[c][k][2] = "norm"}

\* the standard normal deviate behind the proposal of iteration j
Deviate(c, j) == StdNormal(draws[c][CHOOSE k \in NormDraws(c, j) : TRUE][4])

\* C12: in every iteration j the proposal is drawn around chain[j-1] and the
\* ratio compares the proposal with chain[j-1], the value the iteration before
\* stored (its proposal if it accepted, the entry before it if it rejected),
\* and not mu_0 or an older entry
C12_PreviousIsCurrent ==
    \A c \in Calls :
        \A j \in Finished(c) :
            /\ Cardinality(NormDraws(c, j)) = 1
            /\ hist[c][j].prop =
                   FAdd(At(trace_mu[c], j - 1), Fin(PROPOSAL_SCALE * Deviate(c, j)))
            /\ hist[c][j].ratio = Ratio(data[c], hist[c][j].prop, At(trace_mu[c], j - 1))
            /\ j > 1 =>
                   At(trace_mu[c], j - 1) =
                       IF hist[c][j - 1].branch = "accept" THEN hist[c][j - 1].prop
                       ELSE At(trace_mu[c], j - 2)

\* a second iteration has run from an entry that is not mu_0: its proposal is
\* not one drawn around mu_0 and its ratio is not one taken against mu_0
C12_Witness ==
    \E c \in Calls :
        /\ 2 \in Finished(c)
        /\ At(trace_mu[c], 1) # mu0[c]
        /\ hist[c][2].prop # FAdd(mu0[c], Fin(PROPOSAL_SCALE * Deviate(c, 2)))
        /\ hist[c][2].ratio.k = "fin"
        /\ hist[c][2].ratio # Ratio(data[c], hist[c][2].prop, mu0[c])

\* the invocations that hold a trace with its first entry stored
HasTrace(c) == Running(c) \/ (pc[c] = "raised" /\ err[c] = "NameError")

\* how many entries invocation c has stored: inside iteration i the entries
\* 0..i-1, between iterations the entries 0..i
Filled(c) == IF pc[c] \in {"body", "test", "raised"} THEN i[c] ELSE i[c] + 1

\* C13: the chain is filled in order, one entry per iteration: inside iteration
\* i the entries 0..i-1 hold numbers and the entries i..n_samples-1 the
\* placeholder NaN; once the iteration has ended, entry i holds a number too
C13_FilledInOrder ==
    \A c \in Calls :
        HasTrace(c) =>
            /\ Len(trace_mu[c]) = n_samples[c]
            /\ Filled(c) = Len(hist[c]) + 1
            /\ \A idx \in 0..(n_samples[c] - 1) :
                   IF idx < Filled(c) THEN At(trace_mu[c], idx).k = "fin"
                   ELSE At(trace_mu[c], idx) = NaN

\* inside the second iteration of a longest run: two entries stored, the
\* first iteration's an accepted proposal, the rest still placeholders
C13_Witness ==
    \E c \in Calls :
        /\ pc[c] = "test"
        /\ i[c] = 2
        /\ n_samples[c] = MaxSamples
        /\ hist[c][1].branch = "accept"
        /\ At(trace_mu[c], 1).k = "fin"
        /\ At(trace_mu[c], 2) = NaN

\* C14: a step of an invocation inside or between its iterations leaves every
\* entry but chain[i] as it is, leaves an entry that holds a number as it is
\* (an entry is written once), and changes neither the caller's observations
\* nor the view of them the invocation works on
C14_WritesOnlyCurrent ==
    [][\A c \in Calls :
           pc[c] # "idle" =>
               /\ Len(trace_mu'[c]) = Len(trace_mu[c])
               /\ \A idx \in 0..(Len(trace_mu[c]) - 1) :
                      (idx # i[c] \/ At(trace_mu[c], idx).k = "fin") =>
                          At(trace_mu'[c], idx) = At(trace_mu[c], idx)
               /\ obs'[c] = obs[c]
               /\ data'[c] = data[c]
               /\ data[c] = <<obs[c]>>]_vars

\* two iterations have each stored their own entry with a value of their own,
\* and the observation passed in is still what mcmc works on
C14_Witness ==
    \E c \in Calls :
        /\ pc[c] = "for"
        /\ i[c] = 2
        /\ obs[c] # <<>>
        /\ data[c] = <<obs[c]>>
        /\ At(trace_mu[c], 0) = mu0[c]
        /\ At(trace_mu[c], 1) # mu0[c]
        /\ At(trace_mu[c], 2) # At(trace_mu[c], 1)

\* LOGUNIT * (ln N(q; 1, 1) - ln N(p; 1, 1)) for p, q on the 0.1 grid:
\* ((q - 1)^2 - (p - 1)^2) / 2, written out
PriorLogRatio(p, q) ==
    Fin(((q.v - PRIOR_LOC) * (q.v - PRIOR_LOC) - (p.v - PRIOR_LOC) * (p.v - PRIOR_LOC))
            * (LOGUNIT \div 200))

\* C15: with no observation the log-likelihood of every candidate is 0, the
\* ratio of an iteration is the ratio of the prior's densities (Gaussian, loc 1,
\* scale 1) at the proposal and at the previous entry, and the decision is the
\* one the code takes on that ratio
C15_PriorOnly ==
    \A c \in Calls :
        obs[c] = <<>> =>
            \A j \in Finished(c) :
                LET prop == hist[c][j].prop
                    prev == At(trace_mu[c], j - 1)
                    r == FExp(PriorLogRatio(prop, prev))
                IN  /\ GetLogLik(data[c], prop, SIGMA) = Fin(0)
                    /\ GetLogLik(data[c], prev, SIGMA) = Fin(0)
                    /\ hist[c][j].ratio = r
                    /\ hist[c][j].branch =
                           IF FGt(r, Fin(ONE)) \/ ~FGt(hist[c][j].u, r)
                           THEN "accept" ELSE "reject"
                    /\ At(trace_mu[c], j) =
                           IF hist[c][j].branch = "accept" THEN prop ELSE prev

\* a run on no observation has accepted a proposal the prior favours and
\* rejected one it does not
C15_Witness ==
    \E c \in Calls :
        /\ obs[c] = <<>>
        /\ pc[c] = "returned"
        /\ \E j \in Finished(c) :
               /\ FGt(hist[c][j].ratio, Fin(ONE))
               /\ hist[c][j].branch = "accept"
        /\ \E j \in Finished(c) :
               /\ hist[c][j].ratio.k = "fin"
               /\ hist[c][j].ratio.v > 0
               /\ hist[c][j].branch = "reject"

\* the observations of invocation c hold a NaN or an infinity
NonFinite(c) == \E k \in 1..Len(obs[c]) : obs[c][k].k # "fin"

\* C16: a call with n_samples >= 1 on observations that hold a NaN or an
\* infinity ends in no exception: it returns a chain of n_samples entries, and
\* the anomaly has gone into every decision (the ratio of each iteration is
\* NaN) and from there into the chain
C16_NonFiniteCompletes ==
    \A c \in Calls :
        (pc[c] # "idle" /\ n_samples[c] >= 1 /\ NonFinite(c)) =>
            /\ pc[c] # "raised"
            /\ err[c] = ""
            /\ \A j \in Finished(c) : hist[c][j].ratio = NaN
            /\ pc[c] = "returned" =>
                   /\ Len(result[c]) = n_samples[c]
                   /\ Len(hist[c]) = n_samples[c] - 1

\* IEEE a >= b: false as soon as one side is nan
FGe(a, b) == a.k # "nan" /\ b.k # "nan" /\ (a = b \/ FGt(a, b))

\* C17: an iteration whose proposal has a log-posterior greater than or equal
\* to that of the previous entry stores the proposal, whatever uniform value is
\* drawn; an iteration that rejects had a proposal of strictly lower
\* log-posterior
C17_UphillAccepted ==
    \A c \in Calls :
        \A j \in Finished(c) :
            LET lpProp == LogProb(data[c], hist[c][j].prop)
                lpCurr == LogProb(data[c], At(trace_mu[c], j - 1))
            IN  /\ FGe(lpProp, lpCurr) =>
                       /\ hist[c][j].branch = "accept"
                       /\ At(trace_mu[c], j) = hist[c][j].prop
                /\ hist[c][j].branch = "reject" => FGt(lpCurr, lpProp)

\* one run has accepted a proposal of equal log-posterior on the largest
\* uniform value there is, and a proposal of strictly greater log-posterior
C17_Witness ==
    \E c \in Calls :
        /\ \E j \in Finished(c) :
               /\ LogProb(data[c], hist[c][j].prop).k = "fin"
               /\ LogProb(data[c], hist[c][j].prop) = LogProb(data[c], At(trace_mu[c], j - 1))
               /\ hist[c][j].ratio = Fin(ONE)
               /\ hist[c][j].u = UniformRvs(RawCard - 1)
               /\ hist[c][j].branch = "accept"
        /\ \E j \in Finished(c) :
               /\ FGt(LogProb(data[c], hist[c][j].prop),
                      LogProb(data[c], At(trace_mu[c], j - 1)))
               /\ hist[c][j].u.k = "none"
               /\ hist[c][j].branch = "accept"

\* C18: an iteration whose ratio is NaN fails the test ratio > 1, draws one
\* uniform value, fails the test u > ratio too and stores the proposal; in a
\* run whose ratios are all NaN no entry is a retained one
C18_NanAccepted ==
    \A c \in Calls :
        /\ \A j \in Finished(c) :
               hist[c][j].ratio = NaN =>
                   /\ Cardinality(UniformDraws(c, j)) = 1
                   /\ hist[c][j].u.k = "fin"
                   /\ hist[c][j].branch = "accept"
                   /\ At(trace_mu[c], j) = hist[c][j].prop
        /\ (\A j \in Finished(c) : hist[c][j].ratio = NaN) =>
               \A j \in Finished(c) :
                   /\ hist[c][j].branch # "reject"
                   /\ At(trace_mu[c], j) =
                          FAdd(At(trace_mu[c], j - 1), Fin(PROPOSAL_SCALE * Deviate(c, j)))

\* a longest run on an infinite observation (-inf less -inf): every ratio NaN,
\* every proposal stored, one of them on the largest uniform value, and the
\* chain has moved
C18_Witness ==
    \E c \in Calls :
        /\ pc[c] = "returned"
        /\ n_samples[c] = MaxSamples
        /\ obs[c] = <<PInf>>
        /\ \A j \in Finished(c) : hist[c][j].ratio = NaN /\ hist[c][j].branch = "accept"
        /\ \E j \in Finished(c) : hist[c][j].u = UniformRvs(RawCard - 1)
        /\ \E j \in Finished(c) : At(result[c], j) # At(result[c], j - 1)

\* C19: html_tags(post) writes nothing when post.tags is empty; otherwise it
\* writes the tags block, and in it one link for each tag of post.tags that is
\* not in hidden_tags, in the order of post.tags, and none for a hidden tag;
\* with every tag hidden the block holds an empty list
C19_TagsBlock ==
    rendered = "html_tags" =>
        IF post.tags = <<>> THEN out = <<>>
        ELSE LET Test(t) == t \notin hidden_tags
                 shown == SelectSeq(post.tags, Test)
             IN  /\ Len(out) = Len(shown) + 4
                 /\ out[1] = <<"div", "tags">>
                 /\ out[2] = <<"ul", "tags-ul">>
                 /\ \A k \in 1..Len(shown) : out[k + 2] = <<"li", shown[k]>>
                 /\ out[Len(out) - 1] = <<"/ul", "tags-ul">>
                 /\ out[Len(out)] = <<"/div", "tags">>
                 /\ \A k \in 1..Len(out) : out[k][1] = "li" => out[k][2] \notin hidden_tags

\* a post with three different tags, the middle one hidden: the block holds the
\* first and the last, in that order
C19_Witness ==
    /\ rendered = "html_tags"
    /\ Len(post.tags) = 3
    /\ Cardinality({post.tags[k] : k \in 1..3}) = 3
    /\ hidden_tags = {post.tags[2]}
    /\ out = <<<<"div", "tags">>, <<"ul", "tags-ul">>, <<"li", post.tags[1]>>,
               <<"li", post.tags[3]>>, <<"/ul", "tags-ul">>, <<"/div", "tags">>>>

\* the languages html_translations is to link: those of translations that are
\* not the page's language and that the post is available in
Linked == {l \in translations : l # lang /\ l \in post.available}

\* C20: html_translations(post) writes nothing unless the post is translated
\* to more than one language; otherwise it writes the translations block, and
\* in it one link for each language of translations that differs from lang and
\* is available, in ascending order, and none for lang
C20_TranslationsBlock ==
    rendered = "html_translations" =>
        IF Cardinality(post.translated_to) <= 1 THEN out = <<>>
        ELSE /\ Len(out) = Cardinality(Linked) + 2
             /\ out[1] = <<"div", "translations">>
             /\ out[Len(out)] = <<"/div", "translations">>
             /\ \A k \in 2..(Len(out) - 1) :
                    /\ out[k][1] = "a"
                    /\ out[k][2] \in Linked
                    /\ out[k][2] # lang
             /\ \A k \in 2..(Len(out) - 1) : \A m \in 2..(Len(out) - 1) :
                    k < m => Rank(out[k][2]) < Rank(out[m][2])

\* a post translated to every language, rendered on the page of the middle
\* one: the two others are linked, in order, and the page's own is not
C20_Witness ==
    /\ rendered = "html_translations"
    /\ post.translated_to = Langs
    /\ post.available = Langs
    /\ translations = Langs
    /\ lang = LangOrder[2]
    /\ out = <<<<"div", "translations">>, <<"a", LangOrder[1]>>, <<"a", LangOrder[3]>>,
               <<"/div", "translations">>>>

====
